---- MODULE Spec2Model ----
(***************************************************************************)
(* A model of the parameter / listener core (phylotorch/core/model.py) and *)
(* of the reference resolver (phylotorch/core/utils.py).                   *)
(*                                                                         *)
(* Objects live in `heap`, a sequence of node records addressed by their   *)
(* position.  A tensor is a sequence of elements; an element records the   *)
(* literal it started from (`base`) and the transforms applied to it, in   *)
(* order (`by`, the addresses of the TransformedParameters whose transform *)
(* was applied): the transform is an external capability, so it is kept    *)
(* uninterpreted.  Python strings that the code takes apart (ids and       *)
(* references) are sequences of one-character strings.  `doc` is the       *)
(* parsed document that the document passes (expand_plates) rewrite in     *)
(* place.  `stack` holds the frames of a notification cascade taken one    *)
(* handler invocation at a time.  `logger` is a Logger                     *)
(* (torchtree/core/logger.py) and `out` what was written to its file and   *)
(* to the standard output.                                                 *)
(***************************************************************************)
EXTENDS Integers, Sequences, FiniteSets, TLC

\* ------------------------------------------------------------------ bounds
MaxVal == 1
MaxAdds == 1
MaxStop == 2
MaxLen == 3
MaxBuilt == 1
\* the longest chain of derived parameters
MaxChain == 3
\* the largest graph whose notification cascade is taken step by step
MaxNodes == 3
\* the calls made on a logger (run counts as three)
MaxCalls == 4

VARIABLES heap, last, dic, regs, doc, stack, logger, out

vars == <<heap, last, dic, regs, doc, stack, logger, out>>

\* no cascade in progress, no logger constructed, nothing written
NoLogger == [constructed |-> FALSE]

NoOutput == [file |-> <<>>, stdout |-> <<>>, stdout_closed |-> FALSE]

Idle ==
  /\ stack = <<>>
  /\ logger = NoLogger
  /\ out = NoOutput

\* ---------------------------------------------------------------- tensors
Elem(b) == [base |-> b, by |-> <<>>]

Values == {<<Elem(b)>> : b \in 0..MaxVal}

NodeIds == {<<"u">>, <<"v">>}

\* the dictionaries handed to update(value): id -> tensor (one tensor for
\* all the keys of a dictionary)
ValueDicts == {[i \in S |-> t] : S \in SUBSET NodeIds, t \in Values}

\* transform(t) of the TransformedParameter at address d
Transform(d, t) == [i \in DOMAIN t |-> [base |-> t[i].base, by |-> Append(t[i].by, d)]]

\* transform.log_abs_det_jacobian(x, y)
LogAbsDetJacobian(d, x, y) == [of |-> d, at |-> x, val |-> y]

\* ------------------------------------------------------------------ nodes
NewParameterNode(id_, tensor) ==
  [kind |-> "Parameter", id |-> id_, tensor |-> tensor, listeners |-> <<>>,
   x |-> <<>>, xlist |-> FALSE, need_update |-> FALSE,
   parameters |-> <<>>, models |-> <<>>]

IsTP(h, n) == h[n].kind = "TransformedParameter"

\* the message of an exception: what it says and the id it names
Msg(what, id_) == [what |-> what, id |-> id_]

NoMsg == Msg("", <<>>)

\* the machine an operation runs on: the heap, the events of the operation so
\* far (ghost), the exception being raised ("" when none) with its message,
\* the registry and the registrations made so far (ghost)
Machine(h) ==
  [heap |-> h, ev |-> <<>>, err |-> "", msg |-> NoMsg, dic |-> <<>>, regs |-> <<>>]

\* a ghost event: "read" (the getter or _call of node was entered; dirty is
\* its need_update then), "apply" (node applied its transform), "notify"
\* (handle_parameter_changed of node was invoked with variable, whose tensor
\* was seen at that moment; dirty is the need_update of variable then),
\* "notify_model" (handle_model_changed of node was invoked with model
\* variable)
Event(e, n, p, seen, dirty) ==
  [e |-> e, node |-> n, variable |-> p, seen |-> seen, dirty |-> dirty]

ReadEvent(m, n) == Event("read", n, 0, <<>>, m.heap[n].need_update)

ApplyEvent(d) == Event("apply", d, 0, <<>>, FALSE)

NotifyEvent(m, l, p) == Event("notify", l, p, m.heap[p].tensor, m.heap[p].need_update)

ModelEvent(l, c) == Event("notify_model", l, c, <<>>, FALSE)

Log(m, event) == [m EXCEPT !.ev = Append(@, event)]

Raise(m, e) == [m EXCEPT !.err = e]

RaiseMsg(m, e, msg) == [m EXCEPT !.err = e, !.msg = msg]

RECURSIVE GetTensor(_, _)
RECURSIVE CatTensors(_, _, _, _)
RECURSIVE FireFrom(_, _, _)
RECURSIVE Update(_, _, _)

\* torch.cat([x.tensor for x in self.x]), or self.x.tensor: the upstream
\* tensors read in order from position i, appended to acc
CatTensors(m, xs, i, acc) ==
  IF i > Len(xs) THEN [m |-> m, v |-> acc]
  ELSE LET r == GetTensor(m, xs[i])
       IN CatTensors(r.m, xs, i + 1, acc \o r.v)

\* TransformedParameter.apply_transform
ApplyTransform(m, d) ==
  LET r == CatTensors(m, m.heap[d].x, 1, <<>>)
      m1 == [r.m EXCEPT !.heap[d].tensor = Transform(d, r.v)]
  IN Log(m1, ApplyEvent(d))

\* a dirty check that recomputes and leaves the flag set
ResolveDirty_KeepDirty(m, d) ==
  IF m.heap[d].need_update THEN ApplyTransform(m, d) ELSE m

\* the dirty check of the tensor getter and of _call
ResolveDirty(m, d) ==
  IF m.heap[d].need_update
  THEN LET m1 == ApplyTransform(m, d)
       IN [m1 EXCEPT !.heap[d].need_update = FALSE]
  ELSE m

\* Parameter.tensor / TransformedParameter.tensor (getters)
GetTensor(m, n) ==
  IF IsTP(m.heap, n)
  THEN LET m1 == ResolveDirty(Log(m, ReadEvent(m, n)), n)
       IN [m |-> m1, v |-> m1.heap[n].tensor]
  ELSE [m |-> m, v |-> m.heap[n].tensor]

\* a handler that recomputes at once instead of flagging
HandleParameterChanged_Eager(m, l, p) ==
  LET m1 == ApplyTransform(Log(m, NotifyEvent(m, l, p)), l)
  IN FireFrom(m1, l, 1)

\* a handler that flags and does not pass the notification on
HandleParameterChanged_NoRefire(m, l, p) ==
  [Log(m, NotifyEvent(m, l, p)) EXCEPT !.heap[l].need_update = TRUE]

\* TransformedParameter.handle_parameter_changed (the only concrete
\* listener of the core); the event records what the listener can observe
HandleParameterChanged(m, l, p) ==
  LET m1 == Log(m, NotifyEvent(m, l, p))
      m2 == [m1 EXCEPT !.heap[l].need_update = TRUE]
  IN FireFrom(m2, l, 1)

\* Parameter.fire_parameter_changed: the listeners from position i on
FireFrom(m, p, i) ==
  IF i > Len(m.heap[p].listeners) THEN m
  ELSE FireFrom(HandleParameterChanged(m, m.heap[p].listeners[i], p), p, i + 1)

FireParameterChanged(m, p) == FireFrom(m, p, 1)

\* a setter that notifies before it stores
ParameterSetTensor_FireFirst(m, p, t) ==
  [FireParameterChanged(m, p) EXCEPT !.heap[p].tensor = t]

\* Parameter.tensor (setter)
ParameterSetTensor(m, p, t) ==
  FireParameterChanged([m EXCEPT !.heap[p].tensor = t], p)

\* a derived parameter without its own setter
TPSetTensor_Inherited(m, d, t) == ParameterSetTensor(m, d, t)

\* TransformedParameter.tensor (setter)
TPSetTensor(m, d, t) == Raise(m, "Exception")

SetTensor(m, n, t) ==
  IF IsTP(m.heap, n) THEN TPSetTensor(m, n, t) ELSE ParameterSetTensor(m, n, t)

\* Parameter.assign, inherited unchanged by TransformedParameter
Assign(m, p, q) ==
  LET r == GetTensor(m, q)
  IN FireParameterChanged([r.m EXCEPT !.heap[p].tensor = r.v], p)

\* an update that stores the tensor without going through the setter
ParameterUpdate_Silent(m, p, value) ==
  IF m.heap[p].id \in DOMAIN value
  THEN [m EXCEPT !.heap[p].tensor = value[m.heap[p].id]]
  ELSE m

\* Parameter.update
ParameterUpdate(m, p, value) ==
  IF m.heap[p].id \in DOMAIN value
  THEN SetTensor(m, p, value[m.heap[p].id])
  ELSE m

\* TransformedParameter.update: self.x.update(value), then
\* self._tensor = self.transform(self.x.tensor); a list has neither attribute
TPUpdate(m, d, value) ==
  IF m.heap[d].xlist THEN Raise(m, "AttributeError")
  ELSE LET m1 == Update(m, m.heap[d].x[1], value)
       IN IF m1.err # "" THEN m1
          ELSE LET r == GetTensor(m1, m1.heap[d].x[1])
                   m2 == [r.m EXCEPT !.heap[d].tensor = Transform(d, r.v)]
               IN Log(m2, ApplyEvent(d))

Update(m, n, value) ==
  IF IsTP(m.heap, n) THEN TPUpdate(m, n, value) ELSE ParameterUpdate(m, n, value)

\* a _call without the dirty check
TPCall_Stale(m, d) ==
  LET r == CatTensors(Log(m, ReadEvent(m, d)), m.heap[d].x, 1, <<>>)
  IN [m |-> r.m, v |-> LogAbsDetJacobian(d, r.v, r.m.heap[d].tensor)]

\* TransformedParameter._call
TPCall(m, d) ==
  LET m1 == ResolveDirty(Log(m, ReadEvent(m, d)), d)
      r == CatTensors(m1, m1.heap[d].x, 1, <<>>)
  IN [m |-> r.m, v |-> LogAbsDetJacobian(d, r.v, r.m.heap[d].tensor)]

\* CallableModel.__call__: self.lp = self._call(); return self.lp.  Nothing
\* in the core reads lp back, so the value is kept as the result of the
\* operation (last.result) and not as a field of the node
Call(m, d) == TPCall(m, d)

\* Model.add_parameter (with Parameter.add_parameter_listener)
AddParameter(m, d, p) ==
  [m EXCEPT !.heap[p].listeners = Append(@, d),
            !.heap[d].parameters = Append(@, p)]

\* an add_model that does not subscribe
AddModel_NoSubscribe(m, d, c) ==
  IF ~IsTP(m.heap, c) THEN Raise(m, "AttributeError")
  ELSE [m EXCEPT !.heap[d].models = Append(@, c)]

\* Model.add_model (with Model.add_model_listener, which a plain Parameter
\* does not have)
AddModel(m, d, c) ==
  IF ~IsTP(m.heap, c) THEN Raise(m, "AttributeError")
  ELSE [m EXCEPT !.heap[c].listeners = Append(@, d),
                 !.heap[d].models = Append(@, c)]

\* TransformedParameter.handle_model_changed: pass
HandleModelChanged(m, l, c) == Log(m, ModelEvent(l, c))

RECURSIVE FireModelFrom(_, _, _)
\* Model.fire_model_changed: the listeners from position i on
FireModelFrom(m, c, i) ==
  IF i > Len(m.heap[c].listeners) THEN m
  ELSE FireModelFrom(HandleModelChanged(m, m.heap[c].listeners[i], c), c, i + 1)

FireModelChanged(m, c) == FireModelFrom(m, c, 1)

RECURSIVE Parameters(_, _)
RECURSIVE ParametersOfAll(_, _, _)
\* [param for params in self.x for param in params.parameters()]
ParametersOfAll(h, xs, i) ==
  IF i > Len(xs) THEN <<>> ELSE Parameters(h, xs[i]) \o ParametersOfAll(h, xs, i + 1)

\* Parameter.parameters ([self]) / TransformedParameter.parameters
Parameters(h, n) == IF IsTP(h, n) THEN ParametersOfAll(h, h[n].x, 1) ELSE <<n>>

RECURSIVE AddParameters(_, _, _, _)
AddParameters(m, d, xs, i) ==
  IF i > Len(xs) THEN m ELSE AddParameters(AddParameter(m, d, xs[i]), d, xs, i + 1)

\* TransformedParameter.__init__: CallableModel.__init__, the eager
\* transform, the subscriptions, then Parameter.__init__, whose super() call
\* runs CallableModel.__init__ (next in the MRO) once more and so empties
\* listeners, _models and _parameters again
NewTransformedParameter(m, id_, xs, xlist) ==
  LET d == Len(m.heap) + 1
      m0 == [m EXCEPT !.heap = Append(@,
                [NewParameterNode(id_, <<>>) EXCEPT !.kind = "TransformedParameter",
                                                    !.x = xs, !.xlist = xlist])]
      r == CatTensors(m0, xs, 1, <<>>)
      m1 == Log(r.m, ApplyEvent(d))
      m2 == AddParameters(m1, d, xs, 1)
  IN [m2 EXCEPT !.heap[d].tensor = Transform(d, r.v),
                !.heap[d].listeners = <<>>,
                !.heap[d].models = <<>>,
                !.heap[d].parameters = <<>>]

\* ---------------------------------------------------------- Python strings
Contains(s, c) == \E i \in DOMAIN s : s[i] = c

RECURSIVE SplitFrom(_, _, _, _, _)
SplitFrom(s, seps, i, cur, acc) ==
  IF i > Len(s) THEN Append(acc, cur)
  ELSE IF s[i] \in seps THEN SplitFrom(s, seps, i + 1, <<>>, Append(acc, cur))
  ELSE SplitFrom(s, seps, i + 1, Append(cur, s[i]), acc)

\* s.split(c)
Split(s, c) == SplitFrom(s, {c}, 1, <<>>, <<>>)

RECURSIVE RStrip(_, _)
\* s.rstrip(c)
RStrip(s, c) ==
  IF s # <<>> /\ s[Len(s)] = c THEN RStrip(SubSeq(s, 1, Len(s) - 1), c) ELSE s

Digits == <<"0", "1", "2", "3", "4", "5", "6", "7", "8", "9">>

IsDigit(c) == \E k \in DOMAIN Digits : Digits[k] = c

DigitValue(c) == (CHOOSE k \in DOMAIN Digits : Digits[k] = c) - 1

RECURSIVE NatOf(_)
NatOf(s) == IF s = <<>> THEN 0 ELSE 10 * NatOf(SubSeq(s, 1, Len(s) - 1)) + DigitValue(s[Len(s)])

IsNat(s) == s # <<>> /\ \A i \in DOMAIN s : IsDigit(s[i])

\* whether int(s) succeeds: decimal digits after an optional sign
IsInt(s) == IF s # <<>> /\ s[1] \in {"-", "+"} THEN IsNat(Tail(s)) ELSE IsNat(s)

\* int(s)
IntOf(s) ==
  IF s[1] = "-" THEN 0 - NatOf(Tail(s)) ELSE IF s[1] = "+" THEN NatOf(Tail(s)) ELSE NatOf(s)

RECURSIVE StrOfNat(_)
StrOfNat(n) == IF n < 10 THEN <<Digits[n + 1]>> ELSE StrOfNat(n \div 10) \o <<Digits[(n % 10) + 1]>>

\* str(i)
StrOf(i) == IF i < 0 THEN <<"-">> \o StrOfNat(0 - i) ELSE StrOfNat(i)

\* ------------------------------------------------------------ the resolver
\* Documents: a string [t |-> "str", s |-> characters], a mapping
\* [t |-> "dict", f |-> record of its keys], a list [t |-> "list", items |-> ...],
\* a number [t |-> "num", n |-> ...].  An id is a string of characters; a type
\* name is the sequence of its dot-separated components.
Str(s) == [t |-> "str", s |-> s]

Dict(f) == [t |-> "dict", f |-> f]

List(items) == [t |-> "list", items |-> items]

Num(n) == [t |-> "num", n |-> n]

\* the values process_object and process_objects return
NodeRef(a) == [t |-> "node", a |-> a]

NodeList(items) == [t |-> "list", items |-> items]

NoValue == [t |-> "none"]

\* what importlib can import here: module name -> its attributes
ModuleTable ==
  (<<"phylotorch", "core", "model">> :> {"Parameter", "TransformedParameter"})
  @@ (<<"torch", "distributions">> :> {"ExpTransform"})
  @@ (<<"torch">> :> {"float64"})

\* get_class(full_name)
GetClass(full_name) ==
  LET class_name == full_name[Len(full_name)]
      module_name == SubSeq(full_name, 1, Len(full_name) - 1)
  IN IF module_name \notin DOMAIN ModuleTable THEN [err |-> "ModuleNotFoundError", klass |-> ""]
     ELSE IF class_name \notin ModuleTable[module_name] THEN [err |-> "AttributeError", klass |-> ""]
     ELSE [err |-> "", klass |-> class_name]

\* the for loop of the range branch: obj = dic[stem + str(i)] for i in
\* range(i, stop); obj is <<>> while nothing was assigned to it
RECURSIVE RangeLookup(_, _, _, _, _)
RangeLookup(d, stem, i, stop, obj) ==
  IF i >= stop THEN [err |-> "", obj |-> obj]
  ELSE IF stem \o StrOf(i) \notin DOMAIN d THEN [err |-> "KeyError", obj |-> obj]
  ELSE RangeLookup(d, stem, i + 1, stop, <<d[stem \o StrOf(i)]>>)

NotFound(m, data) == RaiseMsg(m, "JSONParseError", Msg("not found", data))

Fail(m) == [m |-> m, v |-> NoValue]

\* a string branch that lets the KeyError of a plain lookup escape
ProcessString_KeyError(m, data) ==
  IF data \in DOMAIN m.dic THEN [m |-> m, v |-> NodeRef(m.dic[data])]
  ELSE Fail(Raise(m, "KeyError"))

\* process_object, string branch (with the final return obj)
ProcessString(m, data) ==
  IF Contains(data, "{")
  THEN LET parts == Split(data, "{")
       IN IF Len(parts) # 2 THEN Fail(Raise(m, "ValueError"))
          ELSE LET stem == parts[1]
                   idx == Split(RStrip(parts[2], "}"), ":")
               IN IF Len(idx) # 2 THEN Fail(Raise(m, "ValueError"))
                  ELSE IF ~IsInt(idx[1]) \/ ~IsInt(idx[2]) THEN Fail(Raise(m, "ValueError"))
                  ELSE LET r == RangeLookup(m.dic, stem, IntOf(idx[1]), IntOf(idx[2]), <<>>)
                       IN IF r.err # "" THEN Fail(NotFound(m, data))
                          ELSE IF r.obj = <<>> THEN Fail(Raise(m, "UnboundLocalError"))
                          ELSE [m |-> m, v |-> NodeRef(r.obj[1])]
  ELSE IF data \in DOMAIN m.dic THEN [m |-> m, v |-> NodeRef(m.dic[data])]
  ELSE Fail(NotFound(m, data))

\* the characters of the distribution names tensor_rand compares with
NormalChars == <<"n", "o", "r", "m", "a", "l">>

LogNormalChars == <<"l", "o", "g", "_">> \o NormalChars

UniformChars == <<"u", "n", "i", "f", "o", "r", "m">>

RandomChars == <<"r", "a", "n", "d", "o", "m">>

BernoulliChars == <<"b", "e", "r", "n", "o", "u", "l", "l", "i">>

\* a tensor of n elements, each b
Fill(n, b) == [i \in 1..n |-> Elem(b)]

\* an element drawn from a distribution: which value is not modelled
Sampled == 0 - 1

RECURSIVE NumEl(_)
\* the number of elements of a tensor of shape size
NumEl(size) == IF size = <<>> THEN 1 ELSE Head(size) * NumEl(Tail(size))

\* whether float(s) succeeds, for decimal notation: blanks around, an
\* optional sign, digits with at most one point
IsFloat(s) ==
  LET NotBlank(c) == c # " "
      body == SelectSeq(s, NotBlank)
      unsigned == IF body # <<>> /\ body[1] \in {"-", "+"} THEN Tail(body) ELSE body
      IsPoint(c) == c = "."
      NotPoint(c) == c # "."
  IN /\ Len(SelectSeq(unsigned, IsPoint)) <= 1
     /\ IsNat(SelectSeq(unsigned, NotPoint))

\* tensor_rand(distribution, dtype, shape), for a shape of n elements: the
\* name is what precedes the arguments; name[0] is its first character
TensorRand(distribution, n) ==
  LET all == SplitFrom(distribution, {"(", ")", ","}, 1, <<>>, <<>>)
      IsToken(tok) == tok # <<>>
      temp == SelectSeq(all, IsToken)
  IN IF temp = <<>> THEN [err |-> "IndexError", t |-> <<>>]
     ELSE LET name == temp[1]
          IN IF \E k \in 2..Len(temp) : ~IsFloat(temp[k]) THEN [err |-> "ValueError", t |-> <<>>]
             ELSE IF name = NormalChars THEN [err |-> "", t |-> Fill(n, Sampled)]
             ELSE IF <<name[1]>> = LogNormalChars THEN [err |-> "", t |-> Fill(n, Sampled)]
             ELSE IF <<name[1]>> = UniformChars THEN [err |-> "", t |-> Fill(n, Sampled)]
             ELSE IF <<name[1]>> = RandomChars THEN [err |-> "", t |-> Fill(n, Sampled)]
             ELSE IF <<name[1]>> = BernoulliChars THEN [err |-> "", t |-> Fill(n, Sampled)]
             ELSE [err |-> "Exception", t |-> <<>>]

RECURSIVE ProcessObject(_, _)

\* cls(data['id'], t) of Parameter.from_json
MakeParameter(m, data, t) ==
  [m |-> [m EXCEPT !.heap = Append(@, NewParameterNode(data.f.id, t))],
   v |-> NodeRef(Len(m.heap) + 1)]

\* the branches of Parameter.from_json that copy a referenced parameter,
\* after process_object returned r: kind is "full_like", "zeros_like" or
\* "ones_like"
ParameterLikeOf(r, data, kind) ==
  IF r.m.err # "" THEN Fail(r.m)
  ELSE IF kind = "full_like" /\ "rand" \in DOMAIN data.f
  THEN LET tr == TensorRand(data.f.rand, Len(r.m.heap[r.v.a].tensor))
       IN IF tr.err # "" THEN Fail(Raise(r.m, tr.err))
          ELSE MakeParameter(r.m, data, tr.t)
  ELSE IF kind = "full_like" /\ "tensor" \notin DOMAIN data.f THEN Fail(Raise(r.m, "KeyError"))
  ELSE LET g == GetTensor(r.m, r.v.a)
           b == IF kind = "zeros_like" THEN 0
                ELSE IF kind = "ones_like" THEN 1 ELSE data.f.tensor
       IN MakeParameter(g.m, data, Fill(Len(g.v), b))

\* input_param = process_object(data[kind], dic), and the rest of the branch
ParameterLike(m, data, kind) == ParameterLikeOf(ProcessObject(m, data.f[kind]), data, kind)

\* a from_json that looks for the directives that copy a parameter before
\* all the others
ParameterFromJson_LikeFirst(m, data) ==
  LET f == data.f
      dtype == GetClass(IF "dtype" \in DOMAIN f THEN f.dtype ELSE <<"torch", "float64">>)
  IN IF dtype.err # "" THEN Fail(Raise(m, dtype.err))
     ELSE IF "full_like" \in DOMAIN f THEN ParameterLike(m, data, "full_like")
     ELSE IF "zeros_like" \in DOMAIN f THEN ParameterLike(m, data, "zeros_like")
     ELSE IF "ones_like" \in DOMAIN f THEN ParameterLike(m, data, "ones_like")
     ELSE IF "full" \in DOMAIN f
     THEN IF "rand" \in DOMAIN f
          THEN LET tr == TensorRand(f.rand, NumEl(f.full))
               IN IF tr.err # "" THEN Fail(Raise(m, tr.err)) ELSE MakeParameter(m, data, tr.t)
          ELSE IF "tensor" \notin DOMAIN f THEN Fail(Raise(m, "KeyError"))
          ELSE MakeParameter(m, data, Fill(NumEl(f.full), f.tensor))
     ELSE IF "zeros" \in DOMAIN f THEN MakeParameter(m, data, Fill(NumEl(f.zeros), 0))
     ELSE IF "ones" \in DOMAIN f THEN MakeParameter(m, data, Fill(NumEl(f.ones), 1))
     ELSE IF "eye" \in DOMAIN f
     THEN MakeParameter(m, data,
            [k \in 1..(f.eye * f.eye) |->
               Elem(IF (k - 1) \div f.eye = (k - 1) % f.eye THEN 1 ELSE 0)])
     ELSE IF "tensor" \notin DOMAIN f THEN Fail(Raise(m, "KeyError"))
     ELSE IF "dimension" \in DOMAIN f THEN Fail(Raise(m, "TypeError"))
     ELSE MakeParameter(m, data, [k \in DOMAIN f.tensor |-> Elem(f.tensor[k])])

\* Parameter.from_json
ParameterFromJson(m, data) ==
  LET f == data.f
      dtype == GetClass(IF "dtype" \in DOMAIN f THEN f.dtype ELSE <<"torch", "float64">>)
  IN IF dtype.err # "" THEN Fail(Raise(m, dtype.err))
     ELSE IF "full_like" \in DOMAIN f THEN ParameterLike(m, data, "full_like")
     ELSE IF "full" \in DOMAIN f
     THEN IF "rand" \in DOMAIN f
          THEN LET tr == TensorRand(f.rand, NumEl(f.full))
               IN IF tr.err # "" THEN Fail(Raise(m, tr.err)) ELSE MakeParameter(m, data, tr.t)
          ELSE IF "tensor" \notin DOMAIN f THEN Fail(Raise(m, "KeyError"))
          ELSE MakeParameter(m, data, Fill(NumEl(f.full), f.tensor))
     ELSE IF "zeros_like" \in DOMAIN f THEN ParameterLike(m, data, "zeros_like")
     ELSE IF "zeros" \in DOMAIN f THEN MakeParameter(m, data, Fill(NumEl(f.zeros), 0))
     ELSE IF "ones_like" \in DOMAIN f THEN ParameterLike(m, data, "ones_like")
     ELSE IF "ones" \in DOMAIN f THEN MakeParameter(m, data, Fill(NumEl(f.ones), 1))
     ELSE IF "eye" \in DOMAIN f
     THEN MakeParameter(m, data,
            [k \in 1..(f.eye * f.eye) |->
               Elem(IF (k - 1) \div f.eye = (k - 1) % f.eye THEN 1 ELSE 0)])
     ELSE IF "tensor" \notin DOMAIN f THEN Fail(Raise(m, "KeyError"))
     \* data['dimension'] / len(values) + 1 is a float: numpy.repeat refuses it
     ELSE IF "dimension" \in DOMAIN f THEN Fail(Raise(m, "TypeError"))
     ELSE MakeParameter(m, data, [k \in DOMAIN f.tensor |-> Elem(f.tensor[k])])

\* the constructor arguments of the transforms, after self
TransformSignature == ("ExpTransform" :> <<"cache_size">>)

\* TransformedParameter.from_json, the loop over the signature: the
\* arguments that are not numbers are resolved
RECURSIVE ProcessArguments(_, _, _, _)
ProcessArguments(m, params, sig, i) ==
  IF i > Len(sig) \/ m.err # "" THEN m
  ELSE IF sig[i] \in DOMAIN params /\ params[sig[i]].t # "num"
  THEN ProcessArguments(ProcessObject(m, params[sig[i]]).m, params, sig, i + 1)
  ELSE ProcessArguments(m, params, sig, i + 1)

\* x.append(process_object(xx, dic)) for xx in data['x']
RECURSIVE ProcessEach(_, _, _, _)
\* one turn of the loop, after process_object returned r
ProcessEachOf(r, items, i, acc) ==
  IF r.m.err # "" THEN [m |-> r.m, v |-> acc]
  ELSE ProcessEach(r.m, items, i + 1, Append(acc, r.v))

ProcessEach(m, items, i, acc) ==
  IF i > Len(items) THEN [m |-> m, v |-> acc]
  ELSE ProcessEachOf(ProcessObject(m, items[i]), items, i, acc)

\* cls(data['id'], x, transform), after process_object returned r for x
NewFromOne(r, id_) ==
  IF r.m.err # "" THEN Fail(r.m)
  ELSE [m |-> NewTransformedParameter(r.m, id_, <<r.v.a>>, FALSE),
        v |-> NodeRef(Len(r.m.heap) + 1)]

\* cls(data['id'], x, transform), after the loop over the list x returned r
NewFromList(r, id_) ==
  IF r.m.err # "" THEN Fail(r.m)
  ELSE [m |-> NewTransformedParameter(r.m, id_, [i \in DOMAIN r.v |-> r.v[i].a], TRUE),
        v |-> NodeRef(Len(r.m.heap) + 1)]

\* TransformedParameter.from_json, from data['x'] on
TPFromX(m1, f) ==
  IF m1.err # "" THEN Fail(m1)
  ELSE IF "x" \notin DOMAIN f THEN Fail(Raise(m1, "KeyError"))
  ELSE IF f.x.t = "list" THEN NewFromList(ProcessEach(m1, f.x.items, 1, <<>>), f.id)
  ELSE NewFromOne(ProcessObject(m1, f.x), f.id)

\* TransformedParameter.from_json
TPFromJson(m, data) ==
  LET f == data.f
  IN IF "transform" \notin DOMAIN f THEN Fail(Raise(m, "KeyError"))
     ELSE LET c == GetClass(f.transform)
          IN IF c.err # "" THEN Fail(Raise(m, c.err))
             ELSE IF c.klass \notin DOMAIN TransformSignature THEN Fail(Raise(m, "TypeError"))
             ELSE IF "parameters" \in DOMAIN f
             THEN TPFromX(ProcessArguments(m, f.parameters, TransformSignature[c.klass], 1), f)
             ELSE TPFromX(m, f)

\* klass.from_json_safe(data, dic): the factory of the class, given the
\* mapping and the registry
FromJsonSafe(m, klass, data) ==
  IF klass = "Parameter" THEN ParameterFromJson(m, data)
  ELSE IF klass = "TransformedParameter" THEN TPFromJson(m, data)
  ELSE Fail(Raise(m, "AttributeError"))

\* dic[id_] = obj
Register(m, id_, a) ==
  [m EXCEPT !.dic = (id_ :> a) @@ @, !.regs = Append(@, [id |-> id_, node |-> a])]

\* dic[id_] = obj; return obj, after from_json_safe returned r
RegisterResult(r, id_) ==
  IF r.m.err # "" THEN Fail(r.m) ELSE [m |-> Register(r.m, id_, r.v.a), v |-> r.v]

\* process_object, mapping branch
ProcessDict(m, data) ==
  IF "id" \notin DOMAIN data.f THEN Fail(Raise(m, "KeyError"))
  ELSE LET id_ == data.f.id
       IN IF id_ \in DOMAIN m.dic
          THEN Fail(RaiseMsg(m, "JSONParseError", Msg("already exists", id_)))
          ELSE IF "type" \notin DOMAIN data.f
          THEN Fail(RaiseMsg(m, "JSONParseError", Msg("does not have a type", id_)))
          ELSE LET c == GetClass(data.f.type)
               IN IF c.err # "" THEN Fail(RaiseMsg(m, "JSONParseError", Msg(c.err, id_)))
                  ELSE RegisterResult(FromJsonSafe(m, c.klass, data), id_)

\* process_object(data, dic)
ProcessObject(m, data) ==
  IF data.t = "str" THEN ProcessString(m, data.s)
  ELSE IF data.t = "dict" THEN ProcessDict(m, data)
  ELSE Fail(RaiseMsg(m, "JSONParseError", Msg("not valid", <<>>)))

\* the list process_objects returns, after the comprehension returned r
ListOf(r) == IF r.m.err # "" THEN Fail(r.m) ELSE [m |-> r.m, v |-> NodeList(r.v)]

\* process_objects(data, dic)
ProcessObjects(m, data) ==
  IF data.t = "list" THEN ListOf(ProcessEach(m, data.items, 1, <<>>))
  ELSE ProcessObject(m, data)

\* ------------------------------------------------------ the document passes
\* In the documents these passes rewrite, the values of the keys id, type and
\* range are strings, spelled in characters (the passes look at the last
\* characters of ids and types); the values of all other keys are documents.
StringKeys == {"id", "type", "range"}

\* the keys of the mappings, in the order the documents list them (the order
\* in which a dict yields its keys and values)
KeyOrder == <<"id", "type", "range", "object", "x">>

Keys(f) ==
  LET Has(k) == k \in DOMAIN f
  IN SelectSeq(KeyOrder, Has)

\* s.endswith(suffix)
EndsWith(s, suffix) ==
  /\ Len(s) >= Len(suffix)
  /\ SubSeq(s, Len(s) - Len(suffix) + 1, Len(s)) = suffix

PlateChars == <<"P", "l", "a", "t", "e">>

RECURSIVE ReplaceStar(_, _)
RECURSIVE ReplaceStarItems(_, _, _)
RECURSIVE ReplaceStarKeys(_, _, _, _)

\* replace_star_with_str, list branch: one turn of the loop, after the
\* recursive call returned r
ReplaceStarItemsOf(r, items, value, i) ==
  IF r.err # "" THEN [err |-> r.err, v |-> items]
  ELSE ReplaceStarItems([items EXCEPT ![i] = r.v], value, i + 1)

\* replace_star_with_str, list branch
ReplaceStarItems(items, value, i) ==
  IF i > Len(items) THEN [err |-> "", v |-> items]
  ELSE ReplaceStarItemsOf(ReplaceStar(items[i], value), items, value, i)

\* replace_star_with_str, dict branch: one turn of the loop over the keys,
\* after the recursive call on the value returned r
ReplaceStarKeysOf(r, f, keys, value, i) ==
  IF r.err # "" THEN [err |-> r.err, v |-> f]
  ELSE ReplaceStarKeys([f EXCEPT ![keys[i]] = r.v], keys, value, i + 1)

\* replace_star_with_str, dict branch: the recursive call on a string does
\* nothing; obj[key][-1] of an empty id raises
ReplaceStarKeys(f, keys, value, i) ==
  IF i > Len(keys) THEN [err |-> "", v |-> f]
  ELSE IF keys[i] = "id"
  THEN IF f.id = <<>> THEN [err |-> "IndexError", v |-> f]
       ELSE IF f.id[Len(f.id)] = "*"
       THEN ReplaceStarKeys([f EXCEPT !.id = SubSeq(f.id, 1, Len(f.id) - 1) \o value],
                            keys, value, i + 1)
       ELSE ReplaceStarKeys(f, keys, value, i + 1)
  ELSE IF keys[i] \in StringKeys THEN ReplaceStarKeys(f, keys, value, i + 1)
  ELSE ReplaceStarKeysOf(ReplaceStar(f[keys[i]], value), f, keys, value, i)

\* the mapping or the list a branch of replace_star_with_str leaves
Rewrapped(r, t) ==
  [err |-> r.err, v |-> IF t = "list" THEN List(r.v) ELSE Dict(r.v)]

\* replace_star_with_str(obj, value)
ReplaceStar(obj, value) ==
  IF obj.t = "list" THEN Rewrapped(ReplaceStarItems(obj.items, value, 1), "list")
  ELSE IF obj.t = "dict" THEN Rewrapped(ReplaceStarKeys(obj.f, Keys(obj.f), value, 1), "dict")
  ELSE [err |-> "", v |-> obj]

RECURSIVE RangeFrom(_, _, _)
\* list(range(i, stop, step)), step # 0
RangeFrom(i, stop, step) ==
  IF (step > 0 /\ i >= stop) \/ (step < 0 /\ i <= stop) THEN <<>>
  ELSE <<i>> \o RangeFrom(i + step, stop, step)

\* range(*r)
RangeOf(r) ==
  IF Len(r) = 1 THEN [err |-> "", v |-> RangeFrom(0, r[1], 1)]
  ELSE IF Len(r) = 2 THEN [err |-> "", v |-> RangeFrom(r[1], r[2], 1)]
  ELSE IF Len(r) > 3 THEN [err |-> "TypeError", v |-> <<>>]
  ELSE IF r[3] = 0 THEN [err |-> "ValueError", v |-> <<>>]
  ELSE [err |-> "", v |-> RangeFrom(r[1], r[2], r[3])]

\* clones that are one object: the first substitution leaves no star for
\* the later ones
Clones_Shared(template, idxs, i, acc) ==
  IF idxs = <<>> THEN [err |-> "", v |-> <<>>]
  ELSE LET r == ReplaceStar(template, StrOf(idxs[1]))
       IN [err |-> r.err, v |-> [k \in DOMAIN idxs |-> r.v]]

RECURSIVE Clones(_, _, _, _)
\* one turn of the loop of expand_plates over the range, after
\* replace_star_with_str returned r for the clone
ClonesOf(r, template, idxs, i, acc) ==
  IF r.err # "" THEN [err |-> r.err, v |-> acc]
  ELSE Clones(template, idxs, i + 1, Append(acc, r.v))

\* the loop of expand_plates over the range: a deep copy of the template
\* per index, with the index substituted
Clones(template, idxs, i, acc) ==
  IF i > Len(idxs) THEN [err |-> "", v |-> acc]
  ELSE ClonesOf(ReplaceStar(template, StrOf(idxs[i])), template, idxs, i, acc)

\* what a call of expand_plates leaves of obj: the object itself, rewritten
\* in place (splice FALSE), or the objects that took its place in the parent
\* list (splice TRUE)
Kept(obj, err) == [err |-> err, splice |-> FALSE, v |-> obj]

Spliced(objects) == [err |-> "", splice |-> TRUE, v |-> objects]

\* expand_plates, the end of the plate branch: the clones c replace the plate
\* in the parent list, when it has a position there
PlaceClones(c, obj, inlist) ==
  IF c.err # "" THEN Kept(obj, c.err)
  ELSE IF inlist THEN Spliced(c.v)
  ELSE Kept(obj, "JSONParseError")

\* expand_plates, plate branch, from the parsed range r on
ExpandRange(r, obj, inlist) ==
  IF r.err # "" THEN Kept(obj, r.err)
  ELSE IF r.v # <<>> /\ "object" \notin DOMAIN obj.f THEN Kept(obj, "KeyError")
  ELSE IF r.v = <<>> THEN PlaceClones([err |-> "", v |-> <<>>], obj, inlist)
  ELSE PlaceClones(Clones(obj.f.object, r.v, 1, <<>>), obj, inlist)

\* expand_plates, plate branch
ExpandPlate(obj, inlist) ==
  IF "range" \notin DOMAIN obj.f THEN Kept(obj, "")
  ELSE LET parts == Split(obj.f.range, ":")
       IN IF \E k \in DOMAIN parts : ~IsInt(parts[k]) THEN Kept(obj, "ValueError")
          ELSE ExpandRange(RangeOf([k \in DOMAIN parts |-> IntOf(parts[k])]), obj, inlist)

RECURSIVE Expand(_, _)
RECURSIVE ExpandItems(_, _)
RECURSIVE ExpandValues(_, _, _)

\* expand_plates, list branch: one turn of enumerate(obj), after the call on
\* the element at position i returned r.  The list is the one being
\* enumerated: the next turn looks at position i + 1 of the list as it is now
ExpandItemsOf(r, items, i) ==
  IF r.err # "" THEN [err |-> r.err, v |-> [items EXCEPT ![i] = r.v]]
  ELSE IF r.splice
  THEN ExpandItems(SubSeq(items, 1, i - 1) \o r.v \o SubSeq(items, i + 1, Len(items)), i + 1)
  ELSE ExpandItems([items EXCEPT ![i] = r.v], i + 1)

\* expand_plates, list branch, from position i on
ExpandItems(items, i) ==
  IF i > Len(items) THEN [err |-> "", v |-> items]
  ELSE ExpandItemsOf(Expand(items[i], TRUE), items, i)

\* expand_plates, the loop over the values of a mapping that is not a
\* plate: one turn, after the call on the value returned r
ExpandValuesOf(r, f, keys, i) ==
  IF r.err # "" THEN [err |-> r.err, v |-> [f EXCEPT ![keys[i]] = r.v]]
  ELSE ExpandValues([f EXCEPT ![keys[i]] = r.v], keys, i + 1)

\* expand_plates, the loop over the values of a mapping that is not a plate
ExpandValues(f, keys, i) ==
  IF i > Len(keys) THEN [err |-> "", v |-> f]
  ELSE IF keys[i] \in StringKeys THEN ExpandValues(f, keys, i + 1)
  ELSE ExpandValuesOf(Expand(f[keys[i]], FALSE), f, keys, i)

\* the list or the mapping a loop of expand_plates leaves
KeptAs(r, t) == Kept(IF t = "list" THEN List(r.v) ELSE Dict(r.v), r.err)

\* expand_plates(obj, parent, idx); inlist: idx is not None
Expand(obj, inlist) ==
  IF obj.t = "list" THEN KeptAs(ExpandItems(obj.items, 1), "list")
  ELSE IF obj.t = "dict"
  THEN IF "type" \in DOMAIN obj.f /\ EndsWith(obj.f.type, PlateChars)
       THEN ExpandPlate(obj, inlist)
       ELSE KeptAs(ExpandValues(obj.f, Keys(obj.f), 1), "dict")
  ELSE Kept(obj, "")

\* expand_plates(obj)
ExpandPlates(obj) == Expand(obj, FALSE)

\* ------------------------------------------------------------ ghost state
Nodes == 1..Len(heap)

TPs == {n \in Nodes : IsTP(heap, n)}

Plain == {n \in Nodes : ~IsTP(heap, n)}

RECURSIVE Added(_, _)
\* the add_parameter and add_model calls made since construction (which
\* empties _parameters and _models): the bound of DoAddParameter and DoAddModel
Added(h, n) ==
  IF n = 0 THEN 0 ELSE Len(h[n].parameters) + Len(h[n].models) + Added(h, n - 1)

\* an operation finished in machine m: what it was and what it did (last is
\* a history variable)
Finish(m, op, target, arg, result) ==
  /\ heap' = m.heap
  /\ last' = [op |-> op, target |-> target, arg |-> arg, err |-> m.err,
              msg |-> m.msg, ev |-> m.ev, result |-> result]
  /\ UNCHANGED <<dic, regs, doc, stack, logger, out>>

\* ------------------------------------------------------- the graphs built
P(id_, b) == [c |-> "Parameter", id |-> id_, t |-> <<Elem(b)>>, x |-> <<>>]

TP(x) == [c |-> "TransformedParameter", id |-> <<"d">>, t |-> <<>>, x |-> <<x>>]

TPL(x1, x2) == [c |-> "TransformedParameterList", id |-> <<"d">>, t |-> <<>>, x |-> <<x1, x2>>]

\* the constructor calls that build each graph the model starts from: a
\* derived parameter, a chain, a list upstream, one parameter listed twice,
\* a parameter reached both directly and through a derived one
Programs ==
  { <<P(<<"u">>, 0), TP(1)>>,
    <<P(<<"u">>, 0), TP(1), TP(2)>>,
    <<P(<<"u">>, 0), P(<<"v">>, 1), TPL(1, 2)>>,
    <<P(<<"u">>, 0), TPL(1, 1)>>,
    <<P(<<"u">>, 0), TP(1), TPL(1, 2)>> }

Construct(m, call) ==
  IF call.c = "Parameter"
  THEN [m EXCEPT !.heap = Append(@, NewParameterNode(call.id, call.t))]
  ELSE NewTransformedParameter(m, call.id, call.x, call.c = "TransformedParameterList")

RECURSIVE Build(_, _, _)
Build(m, prog, i) ==
  IF i > Len(prog) THEN m ELSE Build(Construct(m, prog[i]), prog, i + 1)

\* ---------------------------------------------------------------- actions
NoOperation ==
  [op |-> "init", target |-> 0, arg |-> <<>>, err |-> "", msg |-> NoMsg, ev |-> <<>>,
   result |-> <<>>]

Init ==
  /\ \E prog \in Programs : heap = Build(Machine(<<>>), prog, 1).heap
  /\ last = NoOperation
  /\ dic = <<>>
  /\ regs = <<>>
  /\ doc = <<>>
  /\ Idle

\* d.add_parameter(p) on an existing node (p built before d: the
\* constructors leave the listener graph acyclic, and so does this)
DoAddParameter ==
  \E d \in TPs, p \in Nodes :
    /\ p < d
    /\ Added(heap, Len(heap)) < MaxAdds
    /\ Finish(AddParameter(Machine(heap), d, p), "add_parameter", d, <<p>>, <<>>)

\* d.add_model(c) on an existing node (c built before d)
DoAddModel ==
  \E d \in TPs, c \in Nodes :
    /\ c < d
    /\ Added(heap, Len(heap)) < MaxAdds
    /\ Finish(AddModel(Machine(heap), d, c), "add_model", d, <<c>>, <<>>)

\* c.fire_model_changed()
DoFireModelChanged ==
  \E c \in TPs :
    Finish(FireModelChanged(Machine(heap), c), "fire_model_changed", c, <<>>, <<>>)

\* n.parameters()
DoParameters ==
  \E n \in Nodes :
    Finish(Machine(heap), "parameters", n, <<>>, Parameters(heap, n))

\* n.tensor = t
DoSetTensor ==
  \E n \in Nodes, t \in Values :
    Finish(SetTensor(Machine(heap), n, t), "set_tensor", n, t, <<>>)

\* p.assign(q), q a plain parameter
DoAssign ==
  \E p \in Nodes, q \in Plain :
    Finish(Assign(Machine(heap), p, q), "assign", p, <<q>>, <<>>)

\* n.update(value)
DoUpdate ==
  \E n \in Nodes, value \in ValueDicts :
    Finish(Update(Machine(heap), n, value), "update", n, value, <<>>)

\* n.tensor
DoRead ==
  \E n \in Nodes :
    LET r == GetTensor(Machine(heap), n)
    IN Finish(r.m, "read", n, <<>>, r.v)

\* d()
DoCall ==
  \E d \in TPs :
    LET r == Call(Machine(heap), d)
    IN Finish(r.m, "call", d, <<>>, r.v)

Next ==
  \/ DoAddParameter
  \/ DoSetTensor
  \/ DoAssign
  \/ DoUpdate
  \/ DoRead
  \/ DoCall

Spec == Init /\ [][Next]_vars

\* the same graphs under update(value) and reads only
NextUpdate ==
  \/ DoUpdate
  \/ DoRead

SpecUpdate == Init /\ [][NextUpdate]_vars

\* the same graphs, with the operations of Model on children: registration,
\* model notifications and parameters(), next to the assignments and reads
\* that make and clear dirtiness
NextModels ==
  \/ DoAddParameter
  \/ DoAddModel
  \/ DoFireModelChanged
  \/ DoParameters
  \/ DoSetTensor
  \/ DoRead

\* the graphs of Programs, a derived parameter next to a parameter it is
\* not derived from, and two derived parameters of one parameter
ModelPrograms ==
  Programs \cup { <<P(<<"u">>, 0), P(<<"v">>, 1), TP(1)>>,
                  <<P(<<"u">>, 0), TP(1), TP(1)>> }

InitModels ==
  /\ \E prog \in ModelPrograms : heap = Build(Machine(<<>>), prog, 1).heap
  /\ last = NoOperation
  /\ dic = <<>>
  /\ regs = <<>>
  /\ doc = <<>>
  /\ Idle

SpecModels == InitModels /\ [][NextModels]_vars

\* --------------------------------------------------------------- a chain
\* u, d1 = T1(u), d2 = T2(d1), ..., dn = Tn(d(n-1))
Chain(n) == <<P(<<"u">>, 0)>> \o [i \in 1..n |-> TP(i)]

InitChain ==
  /\ \E n \in 1..MaxChain : heap = Build(Machine(<<>>), Chain(n), 1).heap
  /\ last = NoOperation
  /\ dic = <<>>
  /\ regs = <<>>
  /\ doc = <<>>
  /\ Idle

\* assignments and updates (those of u mutate it), reads and calls
NextChain ==
  \/ DoSetTensor
  \/ DoUpdate
  \/ DoRead
  \/ DoCall

SpecChain == InitChain /\ [][NextChain]_vars

\* ------------------------------------------------- a cascade, step by step
\* the constructor calls that can build the k-th node of a graph: a
\* Parameter, or a TransformedParameter over one or over a list of two of
\* the nodes built before it
ConstructorCalls(k) ==
  {P(<<"u">>, 0)} \cup {TP(x) : x \in 1..(k - 1)}
    \cup {TPL(x1, x2) : x1 \in 1..(k - 1), x2 \in 1..(k - 1)}

RECURSIVE ProgramsOf(_)
\* every sequence of n constructor calls
ProgramsOf(n) ==
  IF n = 0 THEN {<<>>}
  ELSE {Append(prog, call) : prog \in ProgramsOf(n - 1), call \in ConstructorCalls(n)}

InitCascade ==
  /\ \E n \in 1..MaxNodes : \E prog \in ProgramsOf(n) :
       heap = Build(Machine(<<>>), prog, 1).heap
  /\ last = NoOperation
  /\ dic = <<>>
  /\ regs = <<>>
  /\ doc = <<>>
  /\ Idle

\* a call of fire_parameter_changed of p whose loop is at listener i
Frame(p, i) == [p |-> p, i |-> i]

\* a loop that stays at the same listener
Advance_Stuck(frame) == frame

\* for listener in self.listeners: the next listener
Advance(frame) == [frame EXCEPT !.i = @ + 1]

TopFrame == stack[Len(stack)]

\* p.tensor = t, up to the call of fire_parameter_changed; last.result is the
\* heap that the assignment taken as one step leaves
DoBeginSetTensor ==
  \E p \in Plain, t \in Values :
    /\ stack = <<>>
    /\ heap' = [heap EXCEPT ![p].tensor = t]
    /\ stack' = <<Frame(p, 1)>>
    /\ last' = [NoOperation EXCEPT !.op = "set_tensor", !.target = p, !.arg = t,
                                   !.result = SetTensor(Machine(heap), p, t).heap]
    /\ UNCHANGED <<dic, regs, doc, logger, out>>

\* listener.handle_parameter_changed(self, index, event) for the listener
\* the loop is at: self.need_update = True, then the call of its own
\* fire_parameter_changed
DoHandleParameterChanged ==
  /\ stack # <<>>
  /\ TopFrame.i <= Len(heap[TopFrame.p].listeners)
  /\ LET l == heap[TopFrame.p].listeners[TopFrame.i]
     IN /\ heap' = [heap EXCEPT ![l].need_update = TRUE]
        /\ stack' = Append([stack EXCEPT ![Len(stack)] = Advance(TopFrame)], Frame(l, 1))
  /\ UNCHANGED <<last, dic, regs, doc, logger, out>>

\* the loop of fire_parameter_changed is over: the call returns
DoReturn ==
  /\ stack # <<>>
  /\ TopFrame.i > Len(heap[TopFrame.p].listeners)
  /\ stack' = SubSeq(stack, 1, Len(stack) - 1)
  /\ UNCHANGED <<heap, last, dic, regs, doc, logger, out>>

NextCascade ==
  \/ DoBeginSetTensor
  \/ DoHandleParameterChanged
  \/ DoReturn

SpecCascade == InitCascade /\ [][NextCascade]_vars

\* the interpreter goes on with a call that has begun
SpecCascadeFair ==
  SpecCascade /\ WF_vars(DoHandleParameterChanged) /\ WF_vars(DoReturn)

\* ---------------------------------------------------------------- a logger
\* an object handed to the logger: the node, and whether it is an instance of
\* AbstractParameter (logged by its tensor) or not (logged by calling it)
Obj(n, abstract) == [node |-> n, abstract |-> abstract]

\* Logger.__init__; calls is the history of the calls made on the logger
NewLogger(file_name, objs) ==
  [constructed |-> TRUE, file_name |-> file_name, objs |-> objs, f |-> "None",
   f_closed |-> FALSE, writer |-> "None", sample |-> 1, calls |-> <<>>]

\* the state a logger call runs on
Logging == [heap |-> heap, logger |-> logger, out |-> out, err |-> ""]

Failed(st, e) == [st EXCEPT !.err = e]

\* if self.file_name
Truthy(file_name) == file_name.t = "str" /\ file_name.s # <<>>

\* the stream the writer writes to is closed
StreamClosed(st, stream) ==
  IF stream = "file" THEN st.logger.f_closed ELSE st.out.stdout_closed

\* self.writer.writerow(row)
WriteRow(st, row) ==
  LET stream == st.logger.writer
  IN IF stream = "None" THEN Failed(st, "AttributeError")
     ELSE IF StreamClosed(st, stream) THEN Failed(st, "ValueError")
     ELSE IF stream = "file" THEN [st EXCEPT !.out.file = Append(@, row)]
     ELSE [st EXCEPT !.out.stdout = Append(@, row)]

RECURSIVE HeaderFrom(_, _, _)
\* the header fields of the objects from position i: '{id}.{k}' for each k
\* below shape[-1] of a parameter, the id of anything else
HeaderFrom(h, objs, i) ==
  IF i > Len(objs) THEN <<>>
  ELSE LET n == objs[i].node
       IN (IF objs[i].abstract
           THEN [k \in 1..Len(h[n].tensor) |-> <<h[n].id, k - 1>>]
           ELSE <<h[n].id>>)
          \o HeaderFrom(h, objs, i + 1)

Header(h, objs) == <<"sample">> \o HeaderFrom(h, objs, 1)

\* Logger.initialize
LoggerInitialize(st) ==
  LET opened == IF Truthy(st.logger.file_name)
                THEN [st EXCEPT !.logger.f = "file", !.logger.f_closed = FALSE,
                                !.out.file = <<>>]
                ELSE [st EXCEPT !.logger.f = "stdout"]
      st1 == [opened EXCEPT !.logger.writer = opened.logger.f]
  IN WriteRow(st1, Header(st1.heap, st1.logger.objs))

\* log_p.item() or log_p.sum(-1).item(): one field
Item(log_p) == [item |-> log_p]

\* the fields of one object, after its tensor was read or it was called (r)
FieldsOf(r, abstract) ==
  [m |-> r.m, v |-> IF abstract THEN r.v ELSE <<Item(r.v)>>]

RECURSIVE RowFrom(_, _, _, _)
\* the loop goes on after the fields r.v of object i were appended
RowNext(r, objs, i, acc) == RowFrom(r.m, objs, i + 1, acc \o r.v)

\* the loop of log over self.objs from position i, the row so far being acc
RowFrom(m, objs, i, acc) ==
  IF i > Len(objs) THEN [m |-> m, v |-> acc]
  ELSE RowNext(FieldsOf(IF objs[i].abstract THEN GetTensor(m, objs[i].node)
                        ELSE Call(m, objs[i].node), objs[i].abstract),
               objs, i, acc)

\* a log that does not count
LoggerLog_NoCount(st) ==
  LET r == RowFrom(Machine(st.heap), st.logger.objs, 1, <<st.logger.sample>>)
  IN WriteRow([st EXCEPT !.heap = r.m.heap], r.v)

\* self.sample += 1, after writerow
Counted(st) == IF st.err # "" THEN st ELSE [st EXCEPT !.logger.sample = @ + 1]

\* Logger.log
LoggerLog(st) ==
  LET r == RowFrom(Machine(st.heap), st.logger.objs, 1, <<st.logger.sample>>)
  IN Counted(WriteRow([st EXCEPT !.heap = r.m.heap], r.v))

\* Logger.close
LoggerClose(st) ==
  IF st.logger.file_name.t = "none" THEN st
  ELSE IF st.logger.f = "None" THEN Failed(st, "AttributeError")
  ELSE IF st.logger.f = "file" THEN [st EXCEPT !.logger.f_closed = TRUE]
  ELSE [st EXCEPT !.out.stdout_closed = TRUE]

\* a history entry
Called(st, op) == [st EXCEPT !.logger.calls = Append(@, [op |-> op, err |-> st.err])]

\* one call on the logger, unless a call before it raised
Then(st, op) ==
  IF st.err # "" THEN st
  ELSE Called(IF op = "initialize" THEN LoggerInitialize(st)
              ELSE IF op = "log" THEN LoggerLog(st)
              ELSE LoggerClose(st), op)

\* LoggerInterface.run: self.initialize(); self.log(); self.close()
LoggerRun(st) == Then(Then(Then(st, "initialize"), "log"), "close")

\* the file names: none given, a name, the empty string
FileNames == {NoValue, Str(<<"f">>), Str(<<>>)}

\* the lists of objects logged, over the graph u, v, d = T([u, v])
ObjLists ==
  { <<>>, <<Obj(1, TRUE)>>, <<Obj(3, TRUE)>>, <<Obj(3, FALSE)>>,
    <<Obj(1, TRUE), Obj(3, FALSE)>> }

\* the graph as built, or after an assignment to u (d is dirty then)
LoggedGraph == Build(Machine(<<>>), <<P(<<"u">>, 0), P(<<"v">>, 1), TPL(1, 2)>>, 1)

InitLogger ==
  /\ heap \in {LoggedGraph.heap} \cup {SetTensor(LoggedGraph, 1, t).heap : t \in Values}
  /\ last = NoOperation
  /\ dic = <<>>
  /\ regs = <<>>
  /\ doc = <<>>
  /\ stack = <<>>
  /\ out = NoOutput
  /\ \E file_name \in FileNames, objs \in ObjLists : logger = NewLogger(file_name, objs)

\* a logger call finished in state st
FinishLogger(st, op) ==
  /\ heap' = st.heap
  /\ logger' = st.logger
  /\ out' = st.out
  /\ last' = [NoOperation EXCEPT !.op = op, !.err = st.err]
  /\ UNCHANGED <<dic, regs, doc, stack>>

DoInitialize ==
  /\ Len(logger.calls) < MaxCalls
  /\ FinishLogger(Then(Logging, "initialize"), "initialize")

DoLog ==
  /\ Len(logger.calls) < MaxCalls
  /\ FinishLogger(Then(Logging, "log"), "log")

DoClose ==
  /\ Len(logger.calls) < MaxCalls
  /\ FinishLogger(Then(Logging, "close"), "close")

DoRun ==
  /\ Len(logger.calls) + 3 <= MaxCalls
  /\ FinishLogger(LoggerRun(Logging), "run")

NextLogger ==
  \/ DoInitialize
  \/ DoLog
  \/ DoClose
  \/ DoRun

SpecLogger == InitLogger /\ [][NextLogger]_vars

\* ------------------------------------------------------- a resolution pass
X(i) == <<"x">> \o StrOf(i)

A == <<"a">>

Range(stem, start, stop) == stem \o <<"{">> \o StrOf(start) \o <<":">> \o StrOf(stop) \o <<"}">>

ParameterType == <<"phylotorch", "core", "model", "Parameter">>

TransformedType == <<"phylotorch", "core", "model", "TransformedParameter">>

ZerosDoc(id_) == Dict([id |-> id_, type |-> ParameterType, zeros |-> <<1>>])

DerivedDoc(id_, x) ==
  Dict([id |-> id_, type |-> TransformedType,
        transform |-> <<"torch", "distributions", "ExpTransform">>, x |-> x])

\* the documents handed to process_object: references (plain and ranged),
\* parameters, derived parameters over a reference, over a nested mapping
\* (with another id, with their own id), over a list and over a range,
\* mappings without a type or with one that cannot be located, a parameter
\* copied from a nested mapping with its own id, a number, and a derived
\* parameter over a list that nests a mapping with its own id before a
\* reference
Documents ==
  << Str(X(0)), Str(X(1)), Str(X(2)), Str(A),
     Str(Range(<<"x">>, 0, 3)), Str(Range(<<"x">>, 1, 3)), Str(Range(<<"x">>, 2, 2)),
     ZerosDoc(X(0)), ZerosDoc(X(1)), ZerosDoc(X(2)),
     DerivedDoc(A, Str(X(0))),
     DerivedDoc(A, ZerosDoc(X(1))),
     DerivedDoc(A, ZerosDoc(A)),
     DerivedDoc(A, List(<<ZerosDoc(X(2)), Str(X(0))>>)),
     DerivedDoc(A, Str(Range(<<"x">>, 0, 3))),
     Dict([id |-> A]),
     Dict([id |-> A, type |-> <<"phylotorch", "missing", "Parameter">>]),
     Dict([id |-> A, type |-> <<"phylotorch", "core", "model", "Missing">>]),
     Dict([id |-> X(1), type |-> ParameterType, zeros_like |-> ZerosDoc(X(1))]),
     Num(3),
     DerivedDoc(A, List(<<ZerosDoc(A), Str(X(2))>>)) >>

\* the lists handed to process_objects
DocumentLists ==
  << List(<<Str(X(0)), Str(X(1))>>), List(<<ZerosDoc(X(0)), ZerosDoc(X(0))>>) >>

InitResolve ==
  /\ heap = <<>>
  /\ last = NoOperation
  /\ dic = <<>>
  /\ regs = <<>>
  /\ doc = <<>>
  /\ Idle

\* a call returned (or raised) in machine r.m: the heap and the registry are
\* mutated in place, so they stay as the call left them
FinishResolve(r, op, data) ==
  /\ heap' = r.m.heap
  /\ dic' = r.m.dic
  /\ regs' = r.m.regs
  /\ UNCHANGED <<doc, stack, logger, out>>
  /\ last' = [op |-> op, target |-> 0, arg |-> data, err |-> r.m.err, msg |-> r.m.msg,
              ev |-> r.m.ev, result |-> r.v]

Resolving == [Machine(heap) EXCEPT !.dic = dic, !.regs = regs]

\* process_object(data, dic)
DoProcessObject ==
  \E k \in DOMAIN Documents :
    FinishResolve(ProcessObject(Resolving, Documents[k]), "process_object", Documents[k])

\* the distribution strings handed to tensor_rand: each name of the
\* documentation and one that is none of them, bare, with an empty argument
\* list and with two arguments; the empty string; an argument that is no number
NoArguments == <<"(", ")">>

TwoArguments == <<"(", "1", ".", "0", ",", " ", "2", ".", "0", ")">>

DistributionNames ==
  {NormalChars, LogNormalChars, UniformChars, RandomChars, BernoulliChars}

OtherName == <<"g", "a", "m", "m", "a">>

Distributions ==
  {nm \o args : nm \in DistributionNames \cup {OtherName},
                args \in {<<>>, NoArguments, TwoArguments}}
  \cup {<<>>, NormalChars \o <<"(", "a", ")">>}

\* the shape handed to tensor_rand
RandShape == <<1, 2>>

\* tensor_rand(distribution, torch.float64, shape)
DoTensorRand ==
  \E distribution \in Distributions :
    LET r == TensorRand(distribution, NumEl(RandShape))
    IN /\ last' = [op |-> "tensor_rand", target |-> 0, arg |-> distribution,
                   err |-> r.err, msg |-> NoMsg, ev |-> <<>>, result |-> r.t]
       /\ UNCHANGED <<heap, dic, regs, doc, stack, logger, out>>

\* process_objects(data, dic)
DoProcessObjects ==
  \E k \in DOMAIN DocumentLists :
    FinishResolve(ProcessObjects(Resolving, DocumentLists[k]), "process_objects",
                  DocumentLists[k])

NextResolve ==
  \/ DoProcessObject
  \/ DoProcessObjects
  \/ DoTensorRand

SpecResolve == InitResolve /\ [][NextResolve]_vars

\* --------------------------------------------- descriptions of parameters
DirectiveKeys ==
  {"full_like", "full", "zeros_like", "zeros", "ones_like", "ones", "eye", "tensor"}

Q == <<"q">>

\* the description of a Parameter that holds the directives of S: a
\* reference to x0 to copy from, a shape of its own for each shape directive,
\* the scalar 5 for the fills, and the literal [6] when nothing is to fill
DirectiveValues(S) ==
  [id |-> Q, type |-> ParameterType,
   full_like |-> Str(X(0)), zeros_like |-> Str(X(0)), ones_like |-> Str(X(0)),
   full |-> <<2>>, zeros |-> <<3>>, ones |-> <<5>>, eye |-> 2,
   tensor |-> IF S \cap {"full_like", "full"} # {} THEN 5 ELSE <<6>>]

DirectiveDoc(S) == Dict([k \in S \cup {"id", "type"} |-> DirectiveValues(S)[k]])

\* the registry after the mapping of x0 was resolved
ResolvedX0 == ProcessObject(Machine(<<>>), ZerosDoc(X(0))).m

InitDirectives ==
  /\ heap = ResolvedX0.heap
  /\ dic = ResolvedX0.dic
  /\ regs = ResolvedX0.regs
  /\ last = NoOperation
  /\ doc = <<>>
  /\ Idle

\* Parameter.from_json(data, dic), for at most MaxBuilt parameters
DoFromJson ==
  \E S \in SUBSET DirectiveKeys :
    /\ Len(heap) <= MaxBuilt
    /\ FinishResolve(ParameterFromJson(Resolving, DirectiveDoc(S)), "from_json",
                     DirectiveDoc(S))

NextDirectives == DoFromJson

SpecDirectives == InitDirectives /\ [][NextDirectives]_vars

\* --------------------------------------------------------- a document pass
NodeChars == <<"N", "o", "d", "e">>

\* a mapping that is not a plate and holds no document
Leaf == Dict([id |-> <<"y">>, type |-> NodeChars])

\* the template of the plates: ids ending in a star at two depths, and one
\* that does not end in a star
Template ==
  Dict([id |-> <<"x", "*">>, type |-> NodeChars,
        x |-> List(<<Dict([id |-> <<"w", "*">>, type |-> NodeChars]),
                     Dict([id |-> <<"z">>, type |-> NodeChars])>>)])

\* the plate directive over range a:b
Plate(a, b) ==
  Dict([id |-> <<"p", "*">>, type |-> <<"M", "y">> \o PlateChars,
        range |-> StrOf(a) \o <<":">> \o StrOf(b), object |-> Template])

\* the plates of the documents: every range a:b with a <= b, and a reversed one
Plates ==
  {Plate(r[1], r[2]) : r \in {q \in (0..MaxStop) \X (0..MaxStop) : q[1] <= q[2]}}
  \cup {Plate(1, 0)}

\* a mapping that is not a plate and holds the document v under a key
Holder(v) == Dict([id |-> <<"h">>, type |-> NodeChars, x |-> v])

\* what the sequences of the documents are made of: mappings without plates,
\* plates (of non-empty, empty and reversed ranges), a mapping with a plate
\* as the value of a key, a mapping with a sequence that holds a plate
Elements ==
  {Leaf} \cup Plates \cup {Holder(Plate(0, 1)), Holder(List(<<Plate(0, 2)>>))}

\* the parsed documents expand_plates is handed: sequences of elements, a
\* plate as the root, a mapping as the root
PlateDocuments ==
  {List(items) : items \in UNION {[1..n -> Elements] : n \in 0..MaxLen}}
  \cup Plates
  \cup {Holder(List(<<Plate(0, 0), Plate(0, 1)>>))}

InitPlates ==
  /\ doc \in PlateDocuments
  /\ Idle
  /\ heap = <<>>
  /\ last = NoOperation
  /\ dic = <<>>
  /\ regs = <<>>

\* expand_plates(doc): the document is rewritten in place, also by a call
\* that raises
DoExpandPlates ==
  LET r == ExpandPlates(doc)
  IN /\ doc' = r.v
     /\ last' = [op |-> "expand_plates", target |-> 0, arg |-> doc, err |-> r.err,
                 msg |-> NoMsg, ev |-> <<>>, result |-> <<>>]
     /\ UNCHANGED <<heap, dic, regs, stack, logger, out>>

NextPlates == DoExpandPlates

SpecPlates == InitPlates /\ [][NextPlates]_vars

\* ------------------------------------------------- reading the last operation
Count(ev, e, n) == Cardinality({i \in DOMAIN ev : ev[i].e = e /\ ev[i].node = n})

Applies(ev) == {i \in DOMAIN ev : ev[i].e = "apply"}

IsDirectNotify(event) == event.e = "notify" /\ event.variable = last.target

\* the listeners the target of the last operation notified itself, in order
DirectlyNotified ==
  LET direct == SelectSeq(last.ev, IsDirectNotify)
  IN [i \in DOMAIN direct |-> direct[i].node]

\* what reading the upstream of d returns in the current state
UpstreamValue(d) == CatTensors(Machine(heap), heap[d].x, 1, <<>>).v

RECURSIVE Upstream(_)
\* the parameters d is derived from, directly or through derived parameters
Upstream(d) == UNION {{heap[d].x[i]} \cup Upstream(heap[d].x[i]) : i \in DOMAIN heap[d].x}

\* the last operation stored a tensor into a plain parameter
Mutated ==
  /\ last.op \in {"set_tensor", "assign", "update"}
  /\ last.err = ""
  /\ ~IsTP(heap, last.target)
  /\ last.op = "update" => heap[last.target].id \in DOMAIN last.arg

\* ------------------------------------------------------------------ claims

\* C1 as stated: one assignment to p.tensor invokes handle_parameter_changed
\* exactly once on each listener subscribed to p, before the assignment
\* returns, and each invocation sees the new value.
C1_OncePerListener ==
  (last.op = "set_tensor" /\ last.err = "") =>
    \A i \in DOMAIN heap[last.target].listeners :
      Cardinality({k \in DOMAIN last.ev :
                     /\ IsDirectNotify(last.ev[k])
                     /\ last.ev[k].node = heap[last.target].listeners[i]
                     /\ last.ev[k].seen = last.arg}) = 1

\* C1 amended: one assignment to p.tensor invokes handle_parameter_changed
\* with p once per entry of p's listener list, in list order (a listener
\* entered k times is invoked k times), before the assignment returns, and
\* each invocation sees the new value, which p holds.
C1_OncePerEntry ==
  (last.op = "set_tensor" /\ last.err = "") =>
    /\ DirectlyNotified = heap[last.target].listeners
    /\ \A k \in DOMAIN last.ev : IsDirectNotify(last.ev[k]) => last.ev[k].seen = last.arg
    /\ heap[last.target].tensor = last.arg

\* an assignment to a parameter that lists the same listener twice
C1_Witness ==
  /\ last.op = "set_tensor" /\ last.err = ""
  /\ Len(heap[last.target].listeners) = 2
  /\ heap[last.target].listeners[1] = heap[last.target].listeners[2]
  /\ Len(DirectlyNotified) = 2

\* C2: a mutation of an upstream parameter applies no transform and leaves
\* every parameter derived from it dirty; a read or a call applies each
\* transform at most once.  So between two consecutive reads of d, whatever
\* the number of upstream mutations, the transform is applied at most once.
C2_LazyAtMostOnce ==
  /\ Mutated =>
       /\ Applies(last.ev) = {}
       /\ \A d \in TPs : last.target \in Upstream(d) => heap[d].need_update
  /\ last.op \in {"read", "call"} => \A d \in TPs : Count(last.ev, "apply", d) <= 1

\* a read of a derived parameter that recomputed it and the derived
\* parameter it is derived from, once each
C2_Witness ==
  /\ last.op = "read"
  /\ \E d \in TPs : \E e \in TPs :
       /\ d = last.target /\ e \in Upstream(d)
       /\ Count(last.ev, "apply", d) = 1 /\ Count(last.ev, "apply", e) = 1

\* C3 as stated: whenever d is clean, its cached value is the transform of
\* the current upstream value(s).
C3_CleanIsFresh ==
  \A d \in TPs : ~heap[d].need_update => heap[d].tensor = Transform(d, UpstreamValue(d))

\* C4: d() returns the log-abs-det-Jacobian at the current upstream value(s)
\* and the cached value, and leaves d clean; when d was dirty, as after an
\* upstream mutation, the cached value it uses is the transform of the
\* current upstream value(s), recomputed by the call.
C4_CallResolves ==
  last.op = "call" =>
    LET d == last.target IN
    /\ ~heap[d].need_update
    /\ last.result = LogAbsDetJacobian(d, UpstreamValue(d), heap[d].tensor)
    /\ last.ev[1].dirty =>
         /\ Count(last.ev, "apply", d) = 1
         /\ last.result = LogAbsDetJacobian(d, UpstreamValue(d), Transform(d, UpstreamValue(d)))

\* a call of a dirty derived parameter
C4_Witness ==
  /\ last.op = "call"
  /\ last.ev[1].dirty
  /\ Count(last.ev, "apply", last.target) = 1

\* C5: assigning to the tensor of a derived parameter raises, changes
\* nothing and notifies nobody.
C5_SetterRaises ==
  [][(last'.op = "set_tensor" /\ IsTP(heap, last'.target)) =>
       /\ last'.err = "Exception"
       /\ heap' = heap
       /\ last'.ev = <<>>]_vars

\* a refused assignment to a dirty derived parameter
C5_Witness ==
  /\ last.op = "set_tensor" /\ IsTP(heap, last.target)
  /\ last.err = "Exception"
  /\ heap[last.target].need_update

\* C6 as stated: d.update(value) forwards to every upstream parameter, each
\* one whose id is a key of value holding the new tensor afterwards, and on
\* return the cached value of d is the transform of the upstream value(s).
C6_UpdateForwards ==
  (last.op = "update" /\ IsTP(heap, last.target)) =>
    /\ last.err = ""
    /\ \A i \in DOMAIN heap[last.target].x :
         LET u == heap[last.target].x[i] IN
         (~IsTP(heap, u) /\ heap[u].id \in DOMAIN last.arg) =>
            heap[u].tensor = last.arg[heap[u].id]
    /\ heap[last.target].tensor = Transform(last.target, UpstreamValue(last.target))

\* ------------------------------------------------- reading a resolution step
Stems == {<<"x">>}

Indices == 0..3

\* the step resolved the top-level reference stem{start:stop}
ResolvesRange(stem, start, stop) ==
  /\ last'.op = "process_object"
  /\ last'.arg = Str(Range(stem, start, stop))

Registered(stem, i) == stem \o StrOf(i) \in DOMAIN dic

\* the step resolved a top-level plain reference
ResolvesPlain ==
  /\ last'.op = "process_object"
  /\ last'.arg.t = "str"
  /\ ~Contains(last'.arg.s, "{")

\* C7: over a resolution pass the registry only grows and nothing in it is
\* rebound: a top-level mapping whose id is registered fails with 'already
\* exists' and constructs nothing, every id bound before a step is bound to
\* the same node after it, and no assignment dic[id_] = obj made during the
\* step (regs lists them all) is to an id that was bound already
C7_NeverRebound ==
  [][ /\ \A id_ \in DOMAIN dic : id_ \in DOMAIN dic' /\ dic'[id_] = dic[id_]
      /\ \A i, j \in DOMAIN regs' : regs'[i].id = regs'[j].id => i = j
      /\ \A i \in DOMAIN regs' : dic'[regs'[i].id] = regs'[i].node
      /\ (/\ last'.op = "process_object"
          /\ last'.arg.t = "dict"
          /\ "id" \in DOMAIN last'.arg.f
          /\ last'.arg.f.id \in DOMAIN dic)
         => (/\ last'.err = "JSONParseError"
             /\ last'.msg = Msg("already exists", last'.arg.f.id)
             /\ heap' = heap
             /\ dic' = dic) ]_vars

\* C8: a range reference stem{start:stop}, start <= stop, whose ids are all
\* registered resolves to the list of the nodes registered under stem+str(i),
\* i in [start, stop), in that order, and leaves the registry unchanged
C8_RangeYieldsList ==
  [][ \A stem \in Stems, start \in Indices, stop \in Indices :
        (/\ ResolvesRange(stem, start, stop)
         /\ start <= stop
         /\ \A i \in start..(stop - 1) : Registered(stem, i))
        => (/\ last'.err = ""
            /\ last'.result =
                 NodeList([k \in 1..(stop - start) |->
                             NodeRef(dic[stem \o StrOf(start + k - 1)])])
            /\ dic' = dic) ]_vars

\* C9: a range reference with some id of its range not registered fails with
\* a not-found error that names the first missing id, and returns nothing
C9_NamesFirstMissing ==
  [][ \A stem \in Stems, start \in Indices, stop \in Indices :
        (/\ ResolvesRange(stem, start, stop)
         /\ \E i \in start..(stop - 1) : ~Registered(stem, i))
        => LET first == CHOOSE i \in start..(stop - 1) :
                          /\ ~Registered(stem, i)
                          /\ \A j \in start..(i - 1) : Registered(stem, j)
           IN /\ last'.err = "JSONParseError"
              /\ last'.msg = Msg("not found", stem \o StrOf(first))
              /\ last'.result = NoValue ]_vars

\* C10: a plain reference returns the node registered under that id, which a
\* mapping resolution with that id registered and returned, or fails with a
\* not-found error naming the id when none is registered; either way the
\* registry (and the graph) is as before
C10_PlainReference ==
  [][ ResolvesPlain =>
        /\ dic' = dic
        /\ regs' = regs
        /\ heap' = heap
        /\ IF last'.arg.s \in DOMAIN dic
           THEN /\ last'.err = ""
                /\ last'.result = NodeRef(dic[last'.arg.s])
                /\ \E i \in DOMAIN regs :
                     regs[i] = [id |-> last'.arg.s, node |-> dic[last'.arg.s]]
                /\ heap[dic[last'.arg.s]].id = last'.arg.s
           ELSE /\ last'.err = "JSONParseError"
                /\ last'.msg = Msg("not found", last'.arg.s)
                /\ last'.result = NoValue ]_vars

\* a plain reference to x0 was resolved after the mapping x0 and returned the
\* node the mapping registered
C10_Witness ==
  /\ last.op = "process_object"
  /\ last.arg = Str(X(0))
  /\ last.err = ""
  /\ Len(regs) >= 2
  /\ \E i \in DOMAIN regs : regs[i].id = X(0) /\ last.result = NodeRef(regs[i].node)

\* ---------------------------------------------------- reading a document pass
IsPlate(obj) ==
  obj.t = "dict" /\ "type" \in DOMAIN obj.f /\ EndsWith(obj.f.type, PlateChars)

RECURSIVE HasPlate(_)
\* a plate directive is, or is somewhere in, obj (templates aside)
HasPlate(obj) ==
  IF obj.t = "list" THEN \E k \in DOMAIN obj.items : HasPlate(obj.items[k])
  ELSE IF obj.t = "dict"
  THEN IsPlate(obj) \/ \E k \in DOMAIN obj.f \ StringKeys : HasPlate(obj.f[k])
  ELSE FALSE

RECURSIVE Misplaced(_, _)
\* obj is, or holds, a plate directive that is not an element of a sequence;
\* inlist: obj itself is an element of a sequence
Misplaced(obj, inlist) ==
  IF obj.t = "list" THEN \E k \in DOMAIN obj.items : Misplaced(obj.items[k], TRUE)
  ELSE IF obj.t = "dict"
  THEN IF IsPlate(obj) THEN ~inlist
       ELSE \E k \in DOMAIN obj.f \ StringKeys : Misplaced(obj.f[k], FALSE)
  ELSE FALSE

RECURSIVE Ascending(_)
\* every plate directive of obj has a range a:b with a <= b
Ascending(obj) ==
  IF obj.t = "list" THEN \A k \in DOMAIN obj.items : Ascending(obj.items[k])
  ELSE IF obj.t = "dict"
  THEN IF IsPlate(obj)
       THEN \E a \in 0..MaxStop, b \in 0..MaxStop : a <= b /\ obj = Plate(a, b)
       ELSE \A k \in DOMAIN obj.f \ StringKeys : Ascending(obj.f[k])
  ELSE TRUE

\* the template with index i in place of the star of every id that ends in one
CloneOfTemplate(i) ==
  Dict([id |-> <<"x">> \o StrOf(i), type |-> NodeChars,
        x |-> List(<<Dict([id |-> <<"w">> \o StrOf(i), type |-> NodeChars]),
                     Dict([id |-> <<"z">>, type |-> NodeChars])>>)])

\* C11: a plate directive of range a:b, a <= b, at position k of a sequence
\* whose other elements hold no plate, is replaced in place by b - a clones
\* of its template in ascending index order, the clone of index i with i in
\* place of the star of every id that ended in one, at any depth; the
\* elements before and after it keep their order and content
C11_PlateReplaced ==
  [][ (last'.op = "expand_plates" /\ doc.t = "list") =>
        \A k \in DOMAIN doc.items, a \in 0..MaxStop, b \in 0..MaxStop :
          (/\ a <= b
           /\ doc.items[k] = Plate(a, b)
           /\ \A j \in DOMAIN doc.items \ {k} : ~HasPlate(doc.items[j]))
          => /\ last'.err = ""
             /\ doc' = List(SubSeq(doc.items, 1, k - 1)
                            \o [i \in 1..(b - a) |-> CloneOfTemplate(a + i - 1)]
                            \o SubSeq(doc.items, k + 1, Len(doc.items))) ]_vars

\* the plate of range 0:2 between two mappings was replaced by its two clones
C11_Witness ==
  /\ last.op = "expand_plates"
  /\ last.arg = List(<<Leaf, Plate(0, 2), Leaf>>)
  /\ doc = List(<<Leaf, CloneOfTemplate(0), CloneOfTemplate(1), Leaf>>)

\* C12 as stated: for a document without nested plates whose plate
\* directives are all elements of sequences and of ranges a:b with a <= b,
\* expand_plates returns and leaves no plate directive in the document
C12_NoPlateRemains ==
  [][ (/\ last'.op = "expand_plates"
       /\ ~Misplaced(doc, FALSE)
       /\ Ascending(doc))
      => (last'.err = "" /\ ~HasPlate(doc')) ]_vars

\* C13 as stated: expand_plates applied to a document that a first
\* application produced leaves it unchanged
C13_Idempotent ==
  [][ (/\ last.op = "expand_plates"
       /\ last.err = ""
       /\ last'.op = "expand_plates")
      => (last'.err = "" /\ doc' = doc) ]_vars

\* C14 as stated: when a plate directive of the document is not an element
\* of a sequence, expand_plates fails with JSONParseError and the document
\* is as before the call
C14_MisplacedFails ==
  [][ (last'.op = "expand_plates" /\ Misplaced(doc, FALSE))
      => (last'.err = "JSONParseError" /\ doc' = doc) ]_vars

\* C15 as stated: tensor_rand returns a tensor of the shape for each of the
\* names normal, log_normal, uniform, random and bernoulli, bare or followed
\* by a parenthesised argument list, and fails with the invalid-distribution
\* error for every other name
C15_FiveNames ==
  last.op = "tensor_rand" =>
    /\ \A nm \in DistributionNames, args \in {<<>>, NoArguments, TwoArguments} :
         last.arg = nm \o args =>
           (last.err = "" /\ Len(last.result) = NumEl(RandShape))
    /\ \A args \in {<<>>, NoArguments, TwoArguments} :
         last.arg = OtherName \o args => last.err = "Exception"

\* ------------------------------------------------- reading a from_json step
\* the directives of the description from_json was handed
Present == DOMAIN last.arg.f \cap DirectiveKeys

LikeKeys == {"full_like", "zeros_like", "ones_like"}

ShapeKeys == {"full", "zeros", "ones", "eye"}

\* the tensor directive k of the description stands for (x0 is the
\* parameter the references of the description name)
TensorOf(k) ==
  LET f == last.arg.f
      like == Len(heap[dic[X(0)]].tensor)
  IN CASE k = "full_like" -> Fill(like, f.tensor)
       [] k = "zeros_like" -> Fill(like, 0)
       [] k = "ones_like" -> Fill(like, 1)
       [] k = "full" -> Fill(f.full[1], f.tensor)
       [] k = "zeros" -> Fill(f.zeros[1], 0)
       [] k = "ones" -> Fill(f.ones[1], 1)
       [] k = "eye" -> <<Elem(1), Elem(0), Elem(0), Elem(1)>>
       [] k = "tensor" -> [i \in DOMAIN f.tensor |-> Elem(f.tensor[i])]

\* from_json returned a parameter with the id of the description, built
\* from directive k
BuiltFrom(k) ==
  /\ last.err = ""
  /\ heap[last.result.a].id = last.arg.f.id
  /\ heap[last.result.a].tensor = TensorOf(k)

\* from_json was handed a description with a directive, and with the scalar
\* a fill directive needs
Described ==
  /\ last.op = "from_json"
  /\ Present # {}
  /\ Present \cap {"full_like", "full"} # {} => "tensor" \in Present

CodeOrder ==
  <<"full_like", "full", "zeros_like", "zeros", "ones_like", "ones", "eye", "tensor">>

\* C16 as stated: a directive that copies a parameter wins over every
\* directive with a shape of its own, and these win over a literal tensor
C16_LikeFirst ==
  Described =>
    IF Present \cap LikeKeys # {} THEN \E k \in Present \cap LikeKeys : BuiltFrom(k)
    ELSE IF Present \cap ShapeKeys # {} THEN \E k \in Present \cap ShapeKeys : BuiltFrom(k)
    ELSE BuiltFrom("tensor")

\* C16 amended: the directive selected is the first one present in the order
\* full_like, full, zeros_like, zeros, ones_like, ones, eye, literal tensor
C16_FirstInCodeOrder ==
  Described =>
    LET first == CHOOSE i \in DOMAIN CodeOrder :
                   /\ CodeOrder[i] \in Present
                   /\ \A j \in 1..(i - 1) : CodeOrder[j] \notin Present
    IN BuiltFrom(CodeOrder[first])

\* a description holding both full and zeros_like was built from full
C16_Witness ==
  /\ last.op = "from_json"
  /\ Present = {"full", "zeros_like", "tensor"}
  /\ BuiltFrom("full")

\* ------------------------------------------------ reading a registration step
RECURSIVE Handlers(_, _, _)
\* the nodes whose handler of kind e the events ev invoked with variable p,
\* in the order of the invocations
Handlers(ev, e, p) ==
  IF ev = <<>> THEN <<>>
  ELSE IF Head(ev).e = e /\ Head(ev).variable = p
       THEN <<Head(ev).node>> \o Handlers(Tail(ev), e, p)
       ELSE Handlers(Tail(ev), e, p)

IsPrefix(s, t) == Len(s) <= Len(t) /\ SubSeq(t, 1, Len(s)) = s

\* the children of d: its parameter list and its child-model list
Children(h, d) == {h[d].parameters[i] : i \in DOMAIN h[d].parameters}
                    \cup {h[d].models[i] : i \in DOMAIN h[d].models}

RECURSIVE Reachable(_, _)
\* the plain parameters reachable from node n: n itself, or what its
\* children and the parameters it is derived from reach
Reachable(h, n) ==
  IF ~IsTP(h, n) THEN {n}
  ELSE UNION {Reachable(h, k) : k \in Children(h, n) \cup {h[n].x[i] : i \in DOMAIN h[n].x}}

\* C18 as stated: parameters() of a model returns every parameter reachable
\* through the children it added with add_parameter and add_model
C18_EveryChildReturned ==
  last.op = "parameters" /\ IsTP(heap, last.target) =>
    \A k \in Children(heap, last.target) : \A q \in Reachable(heap, k) :
      \E i \in DOMAIN last.result : last.result[i] = q

\* ------------------------------------------------- reading a propagation
IsNotify(event) == event.e = "notify"

\* the handler invocations of the last operation, in order: who was notified
\* and by which variable
NotifyPairs ==
  LET n == SelectSeq(last.ev, IsNotify)
  IN [i \in DOMAIN n |-> <<n[i].node, n[i].variable>>]

RECURSIVE DepthFirst(_, _, _)
\* the depth-first walk of the listener lists from position i of p's: each
\* listener, then everything that listener notifies, then the next sibling
DepthFirst(h, p, i) ==
  IF i > Len(h[p].listeners) THEN <<>>
  ELSE LET l == h[p].listeners[i]
       IN <<<<l, p>>>> \o DepthFirst(h, l, 1) \o DepthFirst(h, p, i + 1)

RECURSIVE Listening(_, _)
\* the nodes reachable from p through listener lists
Listening(h, p) ==
  UNION {{h[p].listeners[i]} \cup Listening(h, h[p].listeners[i]) : i \in DOMAIN h[p].listeners}

\* the last operation stored a tensor into its target and returned
Stored == Mutated \/ (last.op = "assign" /\ last.err = "")

\* C19: a mutation of a parameter invokes the handlers in the depth-first
\* order of the listener lists (registration order among siblings, a
\* listener's own listeners before its next sibling), a derived listener is
\* already dirty when it notifies its own listeners, and when the call
\* returns every node reachable through listener lists is dirty
C19_DepthFirstDirty ==
  Stored =>
    /\ NotifyPairs = DepthFirst(heap, last.target, 1)
    /\ \A i \in DOMAIN last.ev :
         last.ev[i].e = "notify" /\ last.ev[i].variable # last.target => last.ev[i].dirty
    /\ \A d \in Listening(heap, last.target) : heap[d].need_update

\* a parameter with two listeners, the first of which has a listener of its
\* own, was assigned: first listener, its listener, then the second
C19_Witness ==
  /\ last.op = "set_tensor"
  /\ Mutated
  /\ Len(heap[last.target].listeners) = 2
  /\ Len(NotifyPairs) = 3
  /\ NotifyPairs[2][2] = heap[last.target].listeners[1]
  /\ NotifyPairs[3] = <<heap[last.target].listeners[2], last.target>>

\* ----------------------------------------------------------- reading a chain
RECURSIVE Ideal(_, _)
RECURSIVE IdealOfAll(_, _, _)
IdealOfAll(h, xs, i) ==
  IF i > Len(xs) THEN <<>> ELSE Ideal(h, xs[i]) \o IdealOfAll(h, xs, i + 1)

\* the value of node n by definition: its tensor, or its transform of the
\* values by definition of what it is derived from
Ideal(h, n) == IF IsTP(h, n) THEN Transform(n, IdealOfAll(h, h[n].x, 1)) ELSE h[n].tensor

\* the last derived parameter of the chain
Top(h) == Len(h)

AllClean(h) == \A d \in DOMAIN h : ~h[d].need_update

\* C20: in a chain, a mutation of u applies no transform; a read of the last
\* derived parameter applies each transform at most once, returns the
\* composition of the transforms at the current u and leaves every node
\* clean; a read that follows it, or that finds every node clean, applies no
\* transform and changes nothing
C20_ChainLazy ==
  [][ /\ last'.op \in {"set_tensor", "update"} /\ ~IsTP(heap, last'.target) =>
           Applies(last'.ev) = {}
      /\ last'.op = "read" =>
           \A d \in TPs : Count(last'.ev, "apply", d) <= 1
      /\ last'.op = "read" /\ last'.target = Top(heap) =>
           /\ last'.result = Ideal(heap', Top(heap))
           /\ AllClean(heap')
      /\ last'.op = "read" /\ AllClean(heap) =>
           /\ Applies(last'.ev) = {}
           /\ heap' = heap
      /\ last.op = "read" /\ last.target = Top(heap) /\ last'.op = "read" =>
           Applies(last'.ev) = {}
    ]_vars

\* a read of the last of at least two derived parameters that recomputed
\* every node of the chain once, at a value of u assigned after construction
C20_Witness ==
  /\ last.op = "read"
  /\ last.target = Top(heap)
  /\ Len(heap) >= 3
  /\ heap[1].tensor # <<Elem(0)>>
  /\ \A d \in TPs : Count(last.ev, "apply", d) = 1
  /\ last.result = Ideal(heap, Top(heap))

\* --------------------------------------------------------- reading an update
\* C21: update(value) of a plain parameter whose id is a key of value stores
\* value[id] and invokes the handler of every listener, in order; when the id
\* is not a key, nothing changes (tensor, listener lists, flags) and no
\* handler is invoked
C21_UpdateByKey ==
  [][ LET p == last'.target
      IN last'.op = "update" /\ ~IsTP(heap, p) =>
           /\ last'.err = ""
           /\ IF heap[p].id \in DOMAIN last'.arg
              THEN /\ heap'[p].tensor = last'.arg[heap[p].id]
                   /\ heap'[p].listeners = heap[p].listeners
                   /\ Handlers(last'.ev, "notify", p) = heap[p].listeners
                   /\ \A i \in DOMAIN last'.ev :
                        last'.ev[i].e = "notify" /\ last'.ev[i].variable = p =>
                          last'.ev[i].seen = last'.arg[heap[p].id]
              ELSE /\ heap' = heap
                   /\ last'.ev = <<>>
    ]_vars

\* an update with the id of a listened-to parameter as a key changed its
\* tensor and notified its listener
C21_Witness ==
  /\ last.op = "update"
  /\ ~IsTP(heap, last.target)
  /\ heap[last.target].id \in DOMAIN last.arg
  /\ heap[last.target].tensor = last.arg[heap[last.target].id]
  /\ heap[last.target].tensor # <<Elem(0)>>
  /\ Len(heap[last.target].listeners) >= 1
  /\ Handlers(last.ev, "notify", last.target) = heap[last.target].listeners

\* ------------------------------------------------- reading the two kinds
\* the nodes l subscribed to with add_parameter_listener: those it is derived
\* from (the constructor calls add_parameter on them) and those it added with
\* add_parameter
ParameterSubscriptions(h, l) ==
  {h[l].x[i] : i \in DOMAIN h[l].x} \cup {h[l].parameters[i] : i \in DOMAIN h[l].parameters}

\* the nodes l subscribed to with add_model_listener: those it added with
\* add_model
ModelSubscriptions(h, l) == {h[l].models[i] : i \in DOMAIN h[l].models}

\* C22 as stated: handle_parameter_changed of a listener is only invoked by
\* a node it subscribed to with add_parameter_listener, and
\* handle_model_changed only by a node it subscribed to with
\* add_model_listener
C22_KindsApart ==
  \A i \in DOMAIN last.ev :
    LET l == last.ev[i].node
        n == last.ev[i].variable
    IN /\ last.ev[i].e = "notify" => n \in ParameterSubscriptions(heap, l)
       /\ last.ev[i].e = "notify_model" => n \in ModelSubscriptions(heap, l)

\* C23 as stated: when update(value) of a derived parameter returns, the
\* node is clean and its cached value is the transform of the current
\* upstream value (so that the next read applies no transform)
C23_UpdateLeavesClean ==
  last.op = "update" /\ IsTP(heap, last.target) /\ last.err = "" =>
    /\ ~heap[last.target].need_update
    /\ heap[last.target].tensor = Transform(last.target, UpstreamValue(last.target))

\* ------------------------------------------------- reading a failed mapping
\* the last step was a process_object call on a mapping that raised
FailedMapping ==
  /\ last'.op = "process_object"
  /\ last'.arg.t = "dict"
  /\ last'.err # ""

\* C24 as stated: a process_object call on a mapping that fails leaves the
\* mapping's own id unregistered, keeps every entry the registry had, and
\* adds entries of constructed objects only
C24_FailureRegistersNothing ==
  [][ FailedMapping =>
        /\ "id" \in DOMAIN last'.arg.f /\ last'.arg.f.id \notin DOMAIN dic =>
             last'.arg.f.id \notin DOMAIN dic'
        /\ \A k \in DOMAIN dic : k \in DOMAIN dic' /\ dic'[k] = dic[k]
        /\ \A k \in DOMAIN dic' : k \notin DOMAIN dic =>
             /\ dic'[k] \in DOMAIN heap'
             /\ heap'[dic'[k]].id = k
    ]_vars

\* --------------------------------------------------------- reading a cascade
\* C25: on every graph the constructors build, a tensor assignment that has
\* begun returns to its caller, and the heap it leaves is the heap of the
\* assignment taken as one step; the frames on the stack are frames of
\* nodes built later and later, so the stack is never deeper than the graph
C25_CascadeReturns ==
  /\ (stack # <<>>) ~> (stack = <<>>)
  /\ [](stack = <<>> /\ last.op = "set_tensor" => heap = last.result)
  /\ [](\A i \in DOMAIN stack : \A j \in DOMAIN stack : i < j => stack[i].p < stack[j].p)

\* an assignment returned whose cascade went through a listener's listener
\* and then to the next sibling
C25_Witness ==
  /\ stack = <<>>
  /\ last.op = "set_tensor"
  /\ Len(heap[last.target].listeners) >= 2
  /\ heap[heap[last.target].listeners[1]].listeners # <<>>
  /\ \A d \in Listening(heap, last.target) : heap[d].need_update

\* ----------------------------------------------------------- reading a log
\* what the logger wrote: its file when it has a name, else the standard
\* output
Written == IF Truthy(logger.file_name) THEN out.file ELSE out.stdout

Ops == [i \in DOMAIN logger.calls |-> logger.calls[i].op]

\* the calls so far are initialize, then only log calls, then possibly close
Driven ==
  /\ Ops # <<>>
  /\ Ops[1] = "initialize"
  /\ \A i \in 2..Len(Ops) : Ops[i] = "log" \/ (Ops[i] = "close" /\ i = Len(Ops))

LogCalls == Cardinality({i \in DOMAIN Ops : Ops[i] = "log"})

\* C26: for a logger driven by initialize, k calls of log, then close, no
\* call raises, the rows written are one header row followed by k data rows,
\* the j-th of which starts with j, and the sample counter is k + 1; run()
\* on a new logger makes the calls initialize, log, close, once each in
\* that order, and none raises
C26_HeaderThenCountedRows ==
  /\ [](Driven =>
         /\ \A i \in DOMAIN logger.calls : logger.calls[i].err = ""
         /\ Len(Written) = 1 + LogCalls
         /\ Written[1] = Header(heap, logger.objs)
         /\ \A j \in 1..LogCalls : Written[j + 1][1] = j
         /\ logger.sample = LogCalls + 1)
  /\ [][ logger.calls = <<>> /\ last'.op = "run" =>
           logger'.calls = << [op |-> "initialize", err |-> ""],
                              [op |-> "log", err |-> ""],
                              [op |-> "close", err |-> ""] >> ]_vars

\* initialize, two log calls and close were made on a logger of a parameter
\* and a derived parameter called as a model
C26_Witness ==
  /\ Ops = <<"initialize", "log", "log", "close">>
  /\ logger.objs = <<Obj(1, TRUE), Obj(3, FALSE)>>
  /\ Len(Written) = 3
  /\ Written[3][1] = 2

====
